---- MODULE Spec2Model ----
(***************************************************************************)
(* Model of internal/pkg/provider/proxmox_helpers.go: the three helper     *)
(* operations findISOStorageName, storageHasISO and startStorageDownload   *)
(* of Provisioner.  Each operation issues one call to the injected client, *)
(* decodes the JSON body it got and extracts a value from it.              *)
(*                                                                         *)
(* Strings are sequences of one-character strings, so that                 *)
(* strings.HasSuffix and fmt.Sprintf are computed and not assumed.  A JSON *)
(* text is modelled by its syntax tree (or by the kind "invalid" for bytes *)
(* that are not JSON); json.Unmarshal is modelled by what encoding/json    *)
(* does with each kind of tree for the Go target type.                     *)
(***************************************************************************)
EXTENDS Integers, Sequences, FiniteSets, TLC

VARIABLES op, args, reply, pc, trace, result

vars == <<op, args, reply, pc, trace, result>>

\* Longest listing (number of array elements) the client returns.
MaxItems == 2

----------------------------------------------------------------------------
\* String literals of the source and of the examples.

S_iso == <<"i", "s", "o">>
S_images == <<"i", "m", "a", "g", "e", "s">>
S_isoVztmpl == <<"i", "s", "o", ",", "v", "z", "t", "m", "p", "l">>
S_local == <<"l", "o", "c", "a", "l">>
S_nfs == <<"n", "f", "s">>
S_pve == <<"p", "v", "e">>
S_n2 == <<"n", "2">>
S_ubuntuIso == <<"u", "b", "u", "n", "t", "u", ".", "i", "s", "o">>
S_osIso == <<"o", "s", ".", "i", "s", "o">>
S_localUbuntu == <<"l", "o", "c", "a", "l", ":", "i", "s", "o", "/", "u", "b", "u", "n", "t", "u", ".", "i", "s", "o">>
S_centosIso == <<"c", "e", "n", "t", "o", "s", ".", "i", "s", "o">>
S_upid == <<"U", "P", "I", "D", ":", "p", "v", "e", ":", "1", ":">>
S_url == <<"h", "t", "t", "p", ":", "/", "/", "h", "/", "u", ".", "i", "s", "o">>
S_url2 == <<"h", "t", "t", "p", ":", "/", "/", "h", "/", "c", ".", "i", "s", "o">>
S_true == <<"t", "r", "u", "e">>
S_one == <<"1">>
P_nodes == <<"/", "n", "o", "d", "e", "s", "/">>
P_storage == <<"/", "s", "t", "o", "r", "a", "g", "e">>
P_slash == <<"/">>
P_content == <<"/", "c", "o", "n", "t", "e", "n", "t">>
P_download == <<"/", "d", "o", "w", "n", "l", "o", "a", "d">>

----------------------------------------------------------------------------
\* JSON texts, as syntax trees.  Every tree is a record of the same shape:
\* k the kind, s the characters of a string/number/boolean token, a the
\* elements of an array, f the members of an object in textual order.

JInvalid == [k |-> "invalid", s |-> <<>>, a |-> <<>>, f |-> <<>>]
JNull == [k |-> "null", s |-> <<>>, a |-> <<>>, f |-> <<>>]
JStr(s) == [k |-> "str", s |-> s, a |-> <<>>, f |-> <<>>]
JNum(s) == [k |-> "num", s |-> s, a |-> <<>>, f |-> <<>>]
JBool(s) == [k |-> "bool", s |-> s, a |-> <<>>, f |-> <<>>]
JArr(a) == [k |-> "arr", s |-> <<>>, a |-> a, f |-> <<>>]
JObj(f) == [k |-> "obj", s |-> <<>>, a |-> <<>>, f |-> f]
Member(key, val) == [key |-> key, val |-> val]

----------------------------------------------------------------------------
\* Errors.  text is the message prefix, arg the string formatted into it,
\* payload the map formatted into it (%v), wrapped the text of the error
\* wrapped with %w ("" when none).

Err(text, arg, payload, wrapped) ==
    [text |-> text, arg |-> arg, payload |-> payload, wrapped |-> wrapped]

NoErr == Err("<nil>", <<>>, <<>>, "")

\* The two errors json.Unmarshal returns.
SyntaxError == Err("invalid character", <<>>, <<>>, "")
UnmarshalTypeError == Err("json: cannot unmarshal", <<>>, <<>>, "")

\* Errors the client's Get/Post can return.
TransportErrors ==
    { Err("context deadline exceeded", <<>>, <<>>, ""),
      Err("500 Internal Server Error", <<>>, <<>>, "") }

----------------------------------------------------------------------------
\* json.Unmarshal.

\* A JSON object decoded into map[string]any: a later member overwrites an
\* earlier one with the same key.
ToMap(members) ==
    [key \in {members[i].key : i \in 1..Len(members)} |->
        LET last == CHOOSE i \in 1..Len(members) :
                        /\ members[i].key = key
                        /\ \A j \in (i+1)..Len(members) : members[j].key # key
        IN  members[last].val]

\* Lookup in a map[string]any: a missing key yields nil, which is what a
\* JSON null decodes to.
Field(m, key) == IF key \in DOMAIN m THEN m[key] ELSE JNull

\* json.Unmarshal(raw, &items) with items []map[string]any.
UnmarshalItems(raw) ==
    CASE raw.k = "invalid" -> [err |-> SyntaxError, items |-> <<>>]
      [] raw.k = "null" -> [err |-> NoErr, items |-> <<>>]
      [] raw.k = "arr" ->
            IF \A i \in 1..Len(raw.a) : raw.a[i].k \in {"obj", "null"}
            THEN [err |-> NoErr,
                  items |-> [i \in 1..Len(raw.a) |->
                                IF raw.a[i].k = "obj" THEN ToMap(raw.a[i].f) ELSE <<>>]]
            ELSE [err |-> UnmarshalTypeError, items |-> <<>>]
      [] OTHER -> [err |-> UnmarshalTypeError, items |-> <<>>]

\* json.Unmarshal(resp, &wrapper) with wrapper map[string]any.
UnmarshalWrapper(raw) ==
    CASE raw.k = "invalid" -> [err |-> SyntaxError, wrapper |-> <<>>]
      [] raw.k = "null" -> [err |-> NoErr, wrapper |-> <<>>]
      [] raw.k = "obj" -> [err |-> NoErr, wrapper |-> ToMap(raw.f)]
      [] OTHER -> [err |-> UnmarshalTypeError, wrapper |-> <<>>]

----------------------------------------------------------------------------
\* What an operation leaves behind: the calls it made to the client and to
\* json.Unmarshal, in order, and the pair it returned.

GetCall(path) == [ev |-> "Get", path |-> path, params |-> {}]
PostCall(path, params) == [ev |-> "Post", path |-> path, params |-> params]
UnmarshalCall == [ev |-> "Unmarshal", path |-> <<>>, params |-> {}]

Ret(tr, str, bool, err) ==
    [trace |-> tr, result |-> [str |-> str, bool |-> bool, err |-> err]]

----------------------------------------------------------------------------
\* findISOStorageName

\* The name of a record: "storage" when it is a string, else "name" when it
\* is a string, else "".
storageName(item) ==
    IF Field(item, "storage").k = "str" THEN Field(item, "storage").s
    ELSE IF Field(item, "name").k = "str" THEN Field(item, "name").s
    ELSE <<>>

\* The inner loop over content, from element i on.
RECURSIVE contentHasISO(_, _)
contentHasISO(content, i) ==
    IF i > Len(content) THEN FALSE
    ELSE IF content[i].k = "str" /\ content[i].s = S_iso THEN TRUE
    ELSE contentHasISO(content, i + 1)

\* Variant of scanStorages: keeps scanning after a match, so the last
\* qualifying record wins.
RECURSIVE scanStoragesLast(_, _)
scanStoragesLast(items, i) ==
    IF i > Len(items) THEN [found |-> FALSE, name |-> <<>>]
    ELSE LET name == storageName(items[i])
             content == Field(items[i], "content")
             rest == scanStoragesLast(items, i + 1)
         IN  IF rest.found THEN rest
             ELSE IF name # <<>> /\ content.k = "arr" /\ contentHasISO(content.a, 1)
                  THEN [found |-> TRUE, name |-> name]
                  ELSE rest

\* Variant of scanStorages: also accepts content given as one string that
\* starts with "iso".
RECURSIVE scanStoragesStringContent(_, _)
scanStoragesStringContent(items, i) ==
    IF i > Len(items) THEN [found |-> FALSE, name |-> <<>>]
    ELSE LET name == storageName(items[i])
             content == Field(items[i], "content")
         IN  IF name = <<>> THEN scanStoragesStringContent(items, i + 1)
             ELSE IF \/ content.k = "arr" /\ contentHasISO(content.a, 1)
                     \/ content.k = "str" /\ Len(content.s) >= 3 /\ SubSeq(content.s, 1, 3) = S_iso
                  THEN [found |-> TRUE, name |-> name]
                  ELSE scanStoragesStringContent(items, i + 1)

\* The loop over items, from element i on.
RECURSIVE scanStorages(_, _)
scanStorages(items, i) ==
    IF i > Len(items) THEN [found |-> FALSE, name |-> <<>>]
    ELSE LET name == storageName(items[i])
             content == Field(items[i], "content")
         IN  IF name = <<>> THEN scanStorages(items, i + 1)
             ELSE IF content.k = "arr" /\ contentHasISO(content.a, 1)
                  THEN [found |-> TRUE, name |-> name]
                  ELSE scanStorages(items, i + 1)

storagePath(node) == P_nodes \o node \o P_storage

\* Variant of findISOStorageName: the not-found error does not carry the node.
findISOStorageNameNoNode(node, rep) ==
    LET call == GetCall(storagePath(node))
    IN  IF rep.err # NoErr THEN Ret(<<call>>, <<>>, FALSE, rep.err)
        ELSE LET dec == UnmarshalItems(rep.body)
             IN  IF dec.err # NoErr
                 THEN Ret(<<call, UnmarshalCall>>, <<>>, FALSE,
                          Err("failed to parse storage list: ", <<>>, <<>>, dec.err.text))
                 ELSE LET r == scanStorages(dec.items, 1)
                      IN  IF r.found
                          THEN Ret(<<call, UnmarshalCall>>, r.name, FALSE, NoErr)
                          ELSE Ret(<<call, UnmarshalCall>>, <<>>, FALSE,
                                   Err("no ISO-capable storage found", <<>>, <<>>, ""))

findISOStorageName(node, rep) ==
    LET call == GetCall(storagePath(node))
    IN  IF rep.err # NoErr THEN Ret(<<call>>, <<>>, FALSE, rep.err)
        ELSE LET dec == UnmarshalItems(rep.body)
             IN  IF dec.err # NoErr
                 THEN Ret(<<call, UnmarshalCall>>, <<>>, FALSE,
                          Err("failed to parse storage list: ", <<>>, <<>>, dec.err.text))
                 ELSE LET r == scanStorages(dec.items, 1)
                      IN  IF r.found
                          THEN Ret(<<call, UnmarshalCall>>, r.name, FALSE, NoErr)
                          ELSE Ret(<<call, UnmarshalCall>>, <<>>, FALSE,
                                   Err("no ISO-capable storage found on node ", node, <<>>, ""))

----------------------------------------------------------------------------
\* storageHasISO

\* Variant of HasSuffix: strings.HasPrefix in its place.
HasPrefix(s, suffix) ==
    /\ Len(s) >= Len(suffix)
    /\ SubSeq(s, 1, Len(suffix)) = suffix

\* strings.HasSuffix
HasSuffix(s, suffix) ==
    /\ Len(s) >= Len(suffix)
    /\ SubSeq(s, Len(s) - Len(suffix) + 1, Len(s)) = suffix

\* The loop over items, from element i on.
RECURSIVE scanContent(_, _, _)
scanContent(items, isoName, i) ==
    IF i > Len(items) THEN FALSE
    ELSE LET volid == Field(items[i], "volid")
             name == Field(items[i], "name")
         IN  IF volid.k = "str" /\ (HasSuffix(volid.s, isoName) \/ volid.s = isoName)
             THEN TRUE
             ELSE IF name.k = "str" /\ name.s = isoName
                  THEN TRUE
                  ELSE scanContent(items, isoName, i + 1)

contentPath(node, storage) == P_nodes \o node \o P_storage \o P_slash \o storage \o P_content

\* Variant of storageHasISO: a body that does not decode counts as an empty
\* listing.
storageHasISOIgnoreDecodeErr(node, storage, isoName, rep) ==
    LET call == GetCall(contentPath(node, storage))
    IN  IF rep.err # NoErr THEN Ret(<<call>>, <<>>, FALSE, rep.err)
        ELSE LET dec == UnmarshalItems(rep.body)
             IN  Ret(<<call, UnmarshalCall>>, <<>>, scanContent(dec.items, isoName, 1), NoErr)

storageHasISO(node, storage, isoName, rep) ==
    LET call == GetCall(contentPath(node, storage))
    IN  IF rep.err # NoErr THEN Ret(<<call>>, <<>>, FALSE, rep.err)
        ELSE LET dec == UnmarshalItems(rep.body)
             IN  IF dec.err # NoErr
                 THEN Ret(<<call, UnmarshalCall>>, <<>>, FALSE,
                          Err("failed to parse storage content: ", <<>>, <<>>, dec.err.text))
                 ELSE Ret(<<call, UnmarshalCall>>, <<>>, scanContent(dec.items, isoName, 1), NoErr)

----------------------------------------------------------------------------
\* startStorageDownload

\* Variant of downloadParams: the content parameter is left out.
downloadParamsNoContent(isoName, sourceURL) ==
    {<<"filename", isoName>>, <<"url", sourceURL>>}

downloadParams(isoName, sourceURL) ==
    {<<"content", S_iso>>, <<"filename", isoName>>, <<"url", sourceURL>>}

downloadPath(node, storage) == P_nodes \o node \o P_storage \o P_slash \o storage \o P_download

\* Variant of extractUPID: an empty data string is rejected.
extractUPIDNonEmpty(wrapper) ==
    IF "data" \in DOMAIN wrapper
    THEN LET d == wrapper["data"]
         IN  CASE d.k = "str" -> [ok |-> d.s # <<>>, upid |-> d.s]
               [] d.k = "obj" ->
                    LET upid == Field(ToMap(d.f), "upid")
                    IN  IF upid.k = "str" THEN [ok |-> TRUE, upid |-> upid.s]
                        ELSE [ok |-> FALSE, upid |-> <<>>]
               [] OTHER -> [ok |-> FALSE, upid |-> <<>>]
    ELSE [ok |-> FALSE, upid |-> <<>>]

\* Variant of extractUPID: the result of the upid type assertion is not
\* tested, so a nested record always yields an identifier.
extractUPIDUnchecked(wrapper) ==
    IF "data" \in DOMAIN wrapper
    THEN LET d == wrapper["data"]
         IN  CASE d.k = "str" -> [ok |-> TRUE, upid |-> d.s]
               [] d.k = "obj" ->
                    LET upid == Field(ToMap(d.f), "upid")
                    IN  [ok |-> TRUE, upid |-> IF upid.k = "str" THEN upid.s ELSE <<>>]
               [] OTHER -> [ok |-> FALSE, upid |-> <<>>]
    ELSE [ok |-> FALSE, upid |-> <<>>]

\* The extraction of the UPID from the decoded wrapper.
extractUPID(wrapper) ==
    IF "data" \in DOMAIN wrapper
    THEN LET d == wrapper["data"]
         IN  CASE d.k = "str" -> [ok |-> TRUE, upid |-> d.s]
               [] d.k = "obj" ->
                    LET upid == Field(ToMap(d.f), "upid")
                    IN  IF upid.k = "str" THEN [ok |-> TRUE, upid |-> upid.s]
                        ELSE [ok |-> FALSE, upid |-> <<>>]
               [] OTHER -> [ok |-> FALSE, upid |-> <<>>]
    ELSE [ok |-> FALSE, upid |-> <<>>]

\* Variant of startStorageDownload: the error of Post is wrapped.
startStorageDownloadWrapErr(node, storage, isoName, sourceURL, rep) ==
    LET call == PostCall(downloadPath(node, storage), downloadParams(isoName, sourceURL))
    IN  IF rep.err # NoErr
        THEN Ret(<<call>>, <<>>, FALSE, Err("failed to start download: ", <<>>, <<>>, rep.err.text))
        ELSE LET dec == UnmarshalWrapper(rep.body)
             IN  IF dec.err # NoErr
                 THEN Ret(<<call, UnmarshalCall>>, <<>>, FALSE,
                          Err("failed to parse download response: ", <<>>, <<>>, dec.err.text))
                 ELSE LET r == extractUPID(dec.wrapper)
                      IN  IF r.ok
                          THEN Ret(<<call, UnmarshalCall>>, r.upid, FALSE, NoErr)
                          ELSE Ret(<<call, UnmarshalCall>>, <<>>, FALSE,
                                   Err("unexpected download response: ", <<>>, dec.wrapper, ""))

startStorageDownload(node, storage, isoName, sourceURL, rep) ==
    LET call == PostCall(downloadPath(node, storage), downloadParams(isoName, sourceURL))
    IN  IF rep.err # NoErr THEN Ret(<<call>>, <<>>, FALSE, rep.err)
        ELSE LET dec == UnmarshalWrapper(rep.body)
             IN  IF dec.err # NoErr
                 THEN Ret(<<call, UnmarshalCall>>, <<>>, FALSE,
                          Err("failed to parse download response: ", <<>>, <<>>, dec.err.text))
                 ELSE LET r == extractUPID(dec.wrapper)
                      IN  IF r.ok
                          THEN Ret(<<call, UnmarshalCall>>, r.upid, FALSE, NoErr)
                          ELSE Ret(<<call, UnmarshalCall>>, <<>>, FALSE,
                                   Err("unexpected download response: ", <<>>, dec.wrapper, ""))

----------------------------------------------------------------------------
\* Inputs.

Nodes == {S_pve, S_n2}

NoArgs == [node |-> <<>>, storage |-> <<>>, isoName |-> <<>>, sourceURL |-> <<>>]

SeqsUpTo(S, n) == UNION {[1..m -> S] : m \in 0..n}

FailedReplies == {[err |-> e, body |-> JInvalid] : e \in TransportErrors}

StorageFieldValues == {JStr(S_local), JStr(<<>>), JNum(S_one)}
NameFieldValues == {JStr(S_nfs)}
ContentFieldValues ==
    { JStr(S_iso), JArr(<<JStr(S_iso)>>), JArr(<<JStr(S_images), JStr(S_iso)>>),
      JArr(<<JStr(S_images)>>) }

Optional(key, values) == {<<>>} \cup {<<Member(key, v)>> : v \in values}

\* Elements of a storage listing: records, null, and a non-record.
StorageElements ==
    { JObj(s \o n \o c) : s \in Optional("storage", StorageFieldValues),
                          n \in Optional("name", NameFieldValues),
                          c \in Optional("content", ContentFieldValues) }
    \cup { JObj(<<Member("name", JStr(<<>>)), Member("content", JArr(<<JStr(S_iso)>>))>>),
           JObj(<<Member("storage", JStr(S_local)), Member("content", JStr(S_isoVztmpl))>>),
           JObj(<<Member("storage", JStr(S_local)), Member("content", JArr(<<JNum(S_one), JStr(S_iso)>>))>>),
           JObj(<<Member("storage", JStr(S_local)), Member("content", JArr(<<>>))>>),
           JObj(<<Member("storage", JStr(S_nfs)), Member("storage", JStr(S_local)),
                  Member("content", JArr(<<JStr(S_iso)>>))>>),
           JNull, JStr(S_local) }

StorageBodies ==
    {JInvalid, JNull, JObj(<<>>), JStr(S_iso)}
    \cup {JArr(a) : a \in SeqsUpTo(StorageElements, MaxItems)}

StorageReplies == FailedReplies \cup {[err |-> NoErr, body |-> b] : b \in StorageBodies}

VolidFieldValues == {JStr(S_localUbuntu), JStr(S_ubuntuIso), JStr(S_centosIso), JNum(S_one)}
ContentNameFieldValues == {JStr(S_ubuntuIso), JStr(S_centosIso)}

\* Elements of a content listing: records, null, and a non-record.
ContentElements ==
    { JObj(v \o n) : v \in Optional("volid", VolidFieldValues),
                     n \in Optional("name", ContentNameFieldValues) }
    \cup {JNull, JNum(S_one)}

ContentBodies ==
    {JInvalid, JNull, JObj(<<>>), JStr(S_ubuntuIso)}
    \cup {JArr(a) : a \in SeqsUpTo(ContentElements, MaxItems)}

ContentReplies == FailedReplies \cup {[err |-> NoErr, body |-> b] : b \in ContentBodies}

DataValues ==
    { JStr(S_upid), JStr(<<>>), JNum(S_one), JBool(S_true), JNull,
      JArr(<<>>), JArr(<<JStr(S_upid)>>),
      JObj(<<>>),
      JObj(<<Member("upid", JStr(S_upid))>>),
      JObj(<<Member("upid", JStr(<<>>))>>),
      JObj(<<Member("upid", JNum(S_one))>>),
      JObj(<<Member("upid", JNull)>>),
      JObj(<<Member("upid", JObj(<<Member("upid", JStr(S_upid))>>))>>),
      JObj(<<Member("UPID", JStr(S_upid))>>),
      JObj(<<Member("upid", JStr(S_upid)), Member("upid", JNum(S_one))>>) }

DownloadBodies ==
    {JInvalid, JNull, JStr(S_upid), JNum(S_one), JArr(<<JStr(S_upid)>>), JObj(<<>>),
     JObj(<<Member("upid", JStr(S_upid))>>),
     JObj(<<Member("data", JNum(S_one)), Member("data", JStr(S_upid))>>),
     JObj(<<Member("data", JStr(S_upid)), Member("data", JNum(S_one))>>)}
    \cup {JObj(<<Member("data", d)>>) : d \in DataValues}
    \cup {JObj(<<Member("errors", JNull), Member("data", d)>>) : d \in DataValues}

DownloadReplies == FailedReplies \cup {[err |-> NoErr, body |-> b] : b \in DownloadBodies}

Storages == {S_local, S_nfs}
IsoNames == {S_ubuntuIso, S_osIso, <<>>}
SourceURLs == {S_url, S_url2}

----------------------------------------------------------------------------
\* The state machine.  A call is the operation invoked, its arguments and the
\* reply the client gives to the one request the operation sends; the
\* operation then runs to its return.

FindCalls ==
    {[op |-> "findISOStorageName", args |-> [NoArgs EXCEPT !.node = node], reply |-> rep] :
        node \in Nodes, rep \in StorageReplies}

HasCalls ==
    {[op |-> "storageHasISO",
      args |-> [NoArgs EXCEPT !.node = node, !.storage = storage, !.isoName = isoName],
      reply |-> rep] :
        node \in Nodes, storage \in Storages, isoName \in IsoNames, rep \in ContentReplies}

DownloadCalls ==
    {[op |-> "startStorageDownload",
      args |-> [node |-> node, storage |-> storage, isoName |-> isoName, sourceURL |-> url],
      reply |-> rep] :
        node \in Nodes, storage \in Storages, isoName \in IsoNames, url \in SourceURLs,
        rep \in DownloadReplies}

Calls == FindCalls \cup HasCalls \cup DownloadCalls

Init ==
    /\ \E c \in Calls : op = c.op /\ args = c.args /\ reply = c.reply
    /\ pc = "called"
    /\ trace = <<>>
    /\ result = [str |-> <<>>, bool |-> FALSE, err |-> NoErr]

CallFindISOStorageName ==
    /\ pc = "called"
    /\ op = "findISOStorageName"
    /\ LET r == findISOStorageName(args.node, reply)
       IN  /\ trace' = r.trace
           /\ result' = r.result
    /\ pc' = "returned"
    /\ UNCHANGED <<op, args, reply>>

CallStorageHasISO ==
    /\ pc = "called"
    /\ op = "storageHasISO"
    /\ LET r == storageHasISO(args.node, args.storage, args.isoName, reply)
       IN  /\ trace' = r.trace
           /\ result' = r.result
    /\ pc' = "returned"
    /\ UNCHANGED <<op, args, reply>>

CallStartStorageDownload ==
    /\ pc = "called"
    /\ op = "startStorageDownload"
    /\ LET r == startStorageDownload(args.node, args.storage, args.isoName, args.sourceURL, reply)
       IN  /\ trace' = r.trace
           /\ result' = r.result
    /\ pc' = "returned"
    /\ UNCHANGED <<op, args, reply>>

Next ==
    \/ CallFindISOStorageName
    \/ CallStorageHasISO
    \/ CallStartStorageDownload

Spec == Init /\ [][Next]_vars

----------------------------------------------------------------------------
\* Vocabulary of the properties.

Returned(o) == pc = "returned" /\ op = o

\* The listing / the wrapper the operation works on, once the call to the
\* client succeeded and json.Unmarshal reported no error.
GotListing == reply.err = NoErr /\ UnmarshalItems(reply.body).err = NoErr
Listing == UnmarshalItems(reply.body).items
GotWrapper == reply.err = NoErr /\ UnmarshalWrapper(reply.body).err = NoErr
Wrapper == UnmarshalWrapper(reply.body).wrapper

IsStr(v) == v.k = "str"
IsNonEmptyStr(v) == v.k = "str" /\ v.s # <<>>

\* content is a list that has the string "iso" as an element.
AdvertisesISO(rec) ==
    LET c == Field(rec, "content")
    IN  c.k = "arr" /\ \E i \in 1..Len(c.a) : c.a[i] = JStr(S_iso)

\* s ends with t.
EndsWith(s, t) ==
    \E p \in 0..Len(s) : Len(s) = p + Len(t) /\ \A j \in 1..Len(t) : s[p + j] = t[j]

NotFoundError(node) == Err("no ISO-capable storage found on node ", node, <<>>, "")

DecodePrefixes ==
    { "failed to parse storage list: ", "failed to parse storage content: ",
      "failed to parse download response: " }

----------------------------------------------------------------------------
\* C1: findISOStorageName returns the name of the first record, in listing
\* order, that has a usable name (the name the operation resolves for the
\* record is not empty) and whose content is a list containing "iso": later
\* qualifying records do not change the result, earlier records that do not
\* qualify are skipped.
C1_Qualifies(rec) == storageName(rec) # <<>> /\ AdvertisesISO(rec)

C2_FirstNonEmpty(rec) ==
    IF IsNonEmptyStr(Field(rec, "storage")) THEN Field(rec, "storage").s
    ELSE IF IsNonEmptyStr(Field(rec, "name")) THEN Field(rec, "name").s
    ELSE <<>>

C2_Qualifies(rec) == C2_FirstNonEmpty(rec) # <<>> /\ AdvertisesISO(rec)

C2_FirstNonEmptyNameWins ==
    (Returned("findISOStorageName") /\ GotListing) =>
        \A i \in 1..Len(Listing) :
            (C2_Qualifies(Listing[i]) /\ \A j \in 1..(i-1) : ~C2_Qualifies(Listing[j]))
                => (result.err = NoErr /\ result.str = C2_FirstNonEmpty(Listing[i]))

\* C3: with a decoded listing that is empty or in which no record advertises
\* "iso", findISOStorageName returns "" and the not-found error naming the
\* node, which is neither a client error nor a decode error.
C3_NotFoundNamesNode ==
    (/\ Returned("findISOStorageName") /\ GotListing
     /\ \A i \in 1..Len(Listing) : ~AdvertisesISO(Listing[i]))
        => /\ result.str = <<>>
           /\ result.err = NotFoundError(args.node)
           /\ result.err \notin TransportErrors
           /\ result.err.text \notin DecodePrefixes
           /\ result.err.wrapped = ""

\* A non-empty listing without "iso" yields the error naming the node.
C3_Witness ==
    /\ Returned("findISOStorageName") /\ GotListing
    /\ Len(Listing) > 0
    /\ \A i \in 1..Len(Listing) : ~AdvertisesISO(Listing[i])
    /\ result.err.arg = args.node /\ args.node = S_n2

\* C4: with a decoded listing, storageHasISO returns true exactly when some
\* record has a string volid equal to or ending with the target, or a string
\* name equal to the target; it never returns an error then.
C4_Matches(rec, target) ==
    \/ /\ IsStr(Field(rec, "volid"))
       /\ (Field(rec, "volid").s = target \/ EndsWith(Field(rec, "volid").s, target))
    \/ /\ IsStr(Field(rec, "name"))
       /\ Field(rec, "name").s = target

C4_PresentIffMatch ==
    (Returned("storageHasISO") /\ GotListing) =>
        /\ result.err = NoErr
        /\ result.bool <=> \E i \in 1..Len(Listing) : C4_Matches(Listing[i], args.isoName)

\* volid "local:iso/ubuntu.iso" alone, target "ubuntu.iso": true.
C4_Witness ==
    /\ Returned("storageHasISO") /\ GotListing
    /\ args.isoName = S_ubuntuIso
    /\ Len(Listing) = 1
    /\ Field(Listing[1], "volid") = JStr(S_localUbuntu)
    /\ "name" \notin DOMAIN Listing[1]
    /\ result.bool

\* C5: with a decoded wrapper, startStorageDownload returns an identifier
\* without error in exactly two shapes: data a string (returned unchanged,
\* "" included), data a record with a string upid (upid returned unchanged).
C5_DataIsString == "data" \in DOMAIN Wrapper /\ IsStr(Wrapper["data"])
C5_DataHasUpid ==
    /\ "data" \in DOMAIN Wrapper
    /\ Wrapper["data"].k = "obj"
    /\ IsStr(Field(ToMap(Wrapper["data"].f), "upid"))

C5_TwoShapes ==
    (Returned("startStorageDownload") /\ GotWrapper) =>
        /\ C5_DataIsString => (result.err = NoErr /\ result.str = Wrapper["data"].s)
        /\ C5_DataHasUpid =>
              (result.err = NoErr /\ result.str = Field(ToMap(Wrapper["data"].f), "upid").s)
        /\ result.err = NoErr => (C5_DataIsString \/ C5_DataHasUpid)

\* data is the empty string: returned as it is, without error.
C5_Witness ==
    /\ Returned("startStorageDownload") /\ GotWrapper
    /\ C5_DataIsString /\ Wrapper["data"].s = <<>>
    /\ result.err = NoErr /\ result.str = <<>>

\* C6: with a decoded wrapper of any other shape (data absent, a number, an
\* array, a boolean, null, a record whose upid is missing or not a string),
\* startStorageDownload returns "" and the unexpected-response error
\* carrying the wrapper.
C6_OtherShapesFail ==
    (/\ Returned("startStorageDownload") /\ GotWrapper
     /\ \/ "data" \notin DOMAIN Wrapper
        \/ Wrapper["data"].k \in {"num", "arr", "bool", "null"}
        \/ /\ Wrapper["data"].k = "obj"
           /\ ~IsStr(Field(ToMap(Wrapper["data"].f), "upid")))
        => /\ result.str = <<>>
           /\ result.err = Err("unexpected download response: ", <<>>, Wrapper, "")

\* data is a record whose upid is a number.
C6_Witness ==
    /\ Returned("startStorageDownload") /\ GotWrapper
    /\ "data" \in DOMAIN Wrapper
    /\ Wrapper["data"].k = "obj"
    /\ Field(ToMap(Wrapper["data"].f), "upid").k = "num"
    /\ result.err.text = "unexpected download response: "

\* C7: when Get or Post returns an error, each operation returns that very
\* error with the zero result, decodes nothing and calls the client no more.
C7_TransportErrorUnchanged ==
    (pc = "returned" /\ reply.err # NoErr) =>
        /\ result.err = reply.err
        /\ result.str = <<>> /\ result.bool = FALSE
        /\ Len(trace) = 1 /\ trace[1].ev \in {"Get", "Post"}

\* Post fails in startStorageDownload.
C7_Witness ==
    /\ Returned("startStorageDownload")
    /\ reply.err \in TransportErrors
    /\ result.err = reply.err

\* C8: when the call succeeds and the body does not parse into the expected
\* shape (json.Unmarshal reports an error), each operation returns its decode
\* error wrapping the parse error, with the zero result; never the not-found
\* error, the unexpected-response error or a success.
C8_ParseFails ==
    /\ reply.err = NoErr
    /\ IF op = "startStorageDownload"
       THEN UnmarshalWrapper(reply.body).err # NoErr
       ELSE UnmarshalItems(reply.body).err # NoErr

C8_ParseError ==
    IF op = "startStorageDownload"
    THEN UnmarshalWrapper(reply.body).err
    ELSE UnmarshalItems(reply.body).err

C8_DecodePrefix ==
    CASE op = "findISOStorageName" -> "failed to parse storage list: "
      [] op = "storageHasISO" -> "failed to parse storage content: "
      [] OTHER -> "failed to parse download response: "

C8_DecodeErrorWraps ==
    (pc = "returned" /\ C8_ParseFails) =>
        /\ result.err = Err(C8_DecodePrefix, <<>>, <<>>, C8_ParseError.text)
        /\ result.err.wrapped \in {SyntaxError.text, UnmarshalTypeError.text}
        /\ result.str = <<>> /\ result.bool = FALSE

\* storageHasISO gets a JSON object where a list is expected.
C8_Witness ==
    /\ Returned("storageHasISO")
    /\ reply.err = NoErr /\ reply.body.k = "obj"
    /\ result.err.wrapped = UnmarshalTypeError.text

\* C9: every invocation issues exactly one call to the client, before any
\* decoding: Get /nodes/{node}/storage, Get /nodes/{node}/storage/{storage}/content,
\* or Post /nodes/{node}/storage/{storage}/download with exactly content="iso",
\* filename, url; startStorageDownload issues no Get and no further call.
C9_ExpectedCall ==
    CASE op = "findISOStorageName" ->
            [ev |-> "Get", path |-> P_nodes \o args.node \o P_storage, params |-> {}]
      [] op = "storageHasISO" ->
            [ev |-> "Get",
             path |-> P_nodes \o args.node \o P_storage \o <<"/">> \o args.storage \o P_content,
             params |-> {}]
      [] OTHER ->
            [ev |-> "Post",
             path |-> P_nodes \o args.node \o P_storage \o <<"/">> \o args.storage \o P_download,
             params |-> {<<"content", <<"i", "s", "o">>>>, <<"filename", args.isoName>>,
                         <<"url", args.sourceURL>>}]

C9_ExactlyOneCall ==
    pc = "returned" =>
        /\ Len(trace) >= 1
        /\ trace[1] = C9_ExpectedCall
        /\ \A i \in 2..Len(trace) : trace[i].ev = "Unmarshal"

\* A download that succeeded: one Post, then the decoding.
C9_Witness ==
    /\ Returned("startStorageDownload")
    /\ result.err = NoErr /\ result.str = S_upid
    /\ Len(trace) = 2 /\ trace[1].ev = "Post" /\ trace[2].ev = "Unmarshal"

\* C10: a name returned without error is not empty and is the name of a
\* record whose content is a list with the element "iso"; a listing made only
\* of records whose content is absent or not a list, or that have no usable
\* name, yields the not-found error.
C10_NoUsableName(rec) ==
    ~IsNonEmptyStr(Field(rec, "storage")) /\ ~IsNonEmptyStr(Field(rec, "name"))

C10_ContentNotAList(rec) == Field(rec, "content").k # "arr"

C10_OnlyIsoListsSelected ==
    (Returned("findISOStorageName") /\ GotListing) =>
        /\ result.err = NoErr =>
              /\ result.str # <<>>
              /\ \E i \in 1..Len(Listing) :
                    /\ AdvertisesISO(Listing[i])
                    /\ \/ Field(Listing[i], "storage") = JStr(result.str)
                       \/ Field(Listing[i], "name") = JStr(result.str)
        /\ (\A i \in 1..Len(Listing) :
                C10_ContentNotAList(Listing[i]) \/ C10_NoUsableName(Listing[i]))
              => result.err = NotFoundError(args.node)

\* Named records whose content is the string "iso" or "iso,vztmpl": not found.
C10_Witness ==
    /\ Returned("findISOStorageName") /\ GotListing
    /\ Len(Listing) = 2
    /\ Field(Listing[1], "content") = JStr(S_iso)
    /\ Field(Listing[2], "content") = JStr(S_isoVztmpl)
    /\ \A i \in 1..2 : Field(Listing[i], "storage") = JStr(S_local)
    /\ result.err = NotFoundError(args.node)

====
